---- MODULE Spec2Model ----
(***************************************************************************)
(* Model of src/proto/media/file/info.rs: NamedFileProtocolInfo<Header>,   *)
(* a header followed by a NUL-terminated UCS-2 name, built in place in a   *)
(* caller-supplied byte buffer (realign_storage, new_impl, the three       *)
(* `new` constructors), re-read through from_uefi and the accessors.       *)
(*                                                                         *)
(* Memory is modelled byte by byte: `storage` is the caller's buffer, a    *)
(* sequence of bytes whose first byte lives at address `storageAddr`.      *)
(* A slice is a record [addr, len]; a fat reference to a record is         *)
(* [ptr, len] with len the number of Char16 of the name (metadata of the   *)
(* DST pointer).  Layout is that of a 64-bit target.                       *)
(***************************************************************************)
EXTENDS Integers, Sequences, FiniteSets, TLC

VARIABLES kind, storageAddr, storage, storage0, header, name, pad,
          result, pc, realigned, view, decoded, first

vars == <<kind, storageAddr, storage, storage0, header, name, pad,
          result, pc, realigned, view, decoded, first>>

(*************************** bounds of the model ***************************)
\* longest name, in scalars
MaxNameLen == 2
\* buffer lengths are 0..MaxSlack and HeaderSize..HeaderSize+MaxSlack
MaxSlack == 16
\* lowest start address of a buffer, and number of start addresses above it
MinAddr == 64
MaxAddrSpan == 8

(************************ layout of the record kinds ***********************)
Kinds == {"FileInfo", "FileSystemInfo", "FileSystemVolumeLabel"}

\* mem::size_of::<Char16>() and mem::align_of::<Char16>()
SizeOfChar16 == 2
AlignOfChar16 == 2
\* data_types::chars::NUL_16
NUL_16 == 0
\* mem::size_of::<&mut Self>(), a fat pointer: address and length
FatPtrSize == 16

\* mem::size_of::<Header>()
SizeOfHeader(k) ==
    CASE k = "FileInfo" -> 80
      [] k = "FileSystemInfo" -> 40
      [] k = "FileSystemVolumeLabel" -> 0

\* mem::align_of::<Header>()
AlignOfHeader(k) ==
    CASE k = "FileInfo" -> 8
      [] k = "FileSystemInfo" -> 8
      [] k = "FileSystemVolumeLabel" -> 1

Max(a, b) == IF a >= b THEN a ELSE b

(****************************** bytes **************************************)
RECURSIVE LE(_, _)
\* the n little-endian bytes of the unsigned integer v
LE(v, n) == IF n = 0 THEN << >> ELSE <<v % 256>> \o LE(v \div 256, n - 1)

RECURSIVE FromLE(_)
\* the unsigned integer held by little-endian bytes
FromLE(bytes) ==
    IF bytes = << >> THEN 0 ELSE bytes[1] + 256 * FromLE(Tail(bytes))

\* bytes with data stored at 0-based offset off (bytes outside are kept)
WriteBytes(bytes, off, data) ==
    [i \in 1..Len(bytes) |->
        IF i > off /\ i <= off + Len(data) THEN data[i - off] ELSE bytes[i]]

\* the n bytes at 0-based offset off
ReadBytes(bytes, off, n) == [i \in 1..n |-> bytes[off + i]]

Fill(n, b) == [i \in 1..n |-> b]

(************************** header values **********************************)
\* table::runtime::Time is a 16-byte plain struct; two sample values
ZeroTime == Fill(16, 0)
SampleTime == <<228, 7, 11, 5, 19, 41, 7, 0, 0, 0, 0, 0, 60, 0, 1, 0>>

\* struct FileInfoHeader, as built by FileInfo::new (size: 0)
FileInfoHeaders ==
    { [size |-> 0, file_size |-> fs, physical_size |-> ps,
       create_time |-> t, last_access_time |-> ZeroTime,
       modification_time |-> t, attribute |-> at]
      : <<fs, ps, t, at>> \in { <<1024, 1024, ZeroTime, 0>>,
                                <<70000, 131072, SampleTime, 33>> } }

\* struct FileSystemInfoHeader, as built by FileSystemInfo::new (size: 0)
FileSystemInfoHeaders ==
    { [size |-> 0, read_only |-> ro, volume_size |-> vs,
       free_space |-> fr, block_size |-> bs]
      : <<ro, vs, fr, bs>> \in { <<FALSE, 1048576, 4096, 512>>,
                                 <<TRUE, 16777217, 0, 4096>> } }

\* struct FileSystemVolumeLabelHeader {}
FileSystemVolumeLabelHeaders == { [empty |-> TRUE] }

\* the bytes a padding byte of a written header may take
PadBytes == {0, 170}

\* the repr(C) image of a FileInfoHeader (no padding)
FileInfoHeaderBytes(h) ==
    LE(h.size, 8) \o LE(h.file_size, 8) \o LE(h.physical_size, 8)
    \o h.create_time \o h.last_access_time \o h.modification_time
    \o LE(h.attribute, 8)

\* the repr(C) image of a FileSystemInfoHeader; p fills the padding
FileSystemInfoHeaderBytes(h, p) ==
    LE(h.size, 8) \o <<IF h.read_only THEN 1 ELSE 0>> \o Fill(7, p)
    \o LE(h.volume_size, 8) \o LE(h.free_space, 8)
    \o LE(h.block_size, 4) \o Fill(4, p)

HeaderBytes(k, h, p) ==
    CASE k = "FileInfo" -> FileInfoHeaderBytes(h)
      [] k = "FileSystemInfo" -> FileSystemInfoHeaderBytes(h, p)
      [] k = "FileSystemVolumeLabel" -> << >>

(****************************** names **************************************)
\* scalars of the names: NUL, 'A', U+FFFF, U+10000, U+10FFFF
Scalars == {0, 65, 65535, 65536, 1114111}

RECURSIVE SeqsUpTo(_, _)
SeqsUpTo(S, n) ==
    IF n = 0 THEN { << >> }
    ELSE LET shorter == SeqsUpTo(S, n - 1)
         IN shorter \cup { Append(s, x) : s \in shorter, x \in S }

Names == SeqsUpTo(Scalars, MaxNameLen)

\* Char16::try_from(char): one code unit, or an error above U+FFFF
Char16TryFrom(ch) ==
    IF ch <= 65535 THEN [ok |-> TRUE, val |-> ch]
    ELSE [ok |-> FALSE, val |-> 0]

Representable(n) == \A i \in 1..Len(n) : Char16TryFrom(n[i]).ok

(************************** realign_storage ********************************)
\* `&mut []`: an empty slice at a dangling address
EmptySlice == [addr |-> 1, len |-> 0]

\* the alignment of NamedFileProtocolInfo<Header>
InfoAlignment(k) == Max(AlignOfHeader(k), AlignOfChar16)

\* the number of leading bytes realign_storage discards
RealignmentPadding(addr, k) ==
    LET info_alignment == InfoAlignment(k)
        storage_misalignment == addr % info_alignment
    IN info_alignment - storage_misalignment

\* NamedFileProtocolInfo::realign_storage on the slice [addr, len]
realign_storage(addr, len, k) ==
    LET realignment_padding == RealignmentPadding(addr, k)
    IN IF len < realignment_padding THEN EmptySlice
       ELSE [addr |-> addr + realignment_padding,
             len |-> len - realignment_padding]

(******************************* new_impl **********************************)
Ok(ptr, len) == [tag |-> "Ok", ptr |-> ptr, len |-> len, val |-> 0]
InsufficientStorage(n) ==
    [tag |-> "InsufficientStorage", ptr |-> 0, len |-> 0, val |-> n]
InvalidChar(ch) == [tag |-> "InvalidChar", ptr |-> 0, len |-> 0, val |-> ch]

\* name.chars().count() + 1
NameLengthUcs2(n) == Len(n) + 1

\* info_size: the bytes of header and NUL-terminated name
InfoSize(k, n) == SizeOfHeader(k) + NameLengthUcs2(n) * SizeOfChar16

\* the size check with <= for <
StorageTooSmallOrEqual(slice, k, n) == slice.len <= InfoSize(k, n)

\* the size check of new_impl
StorageTooSmall(slice, k, n) == slice.len < InfoSize(k, n)

\* the last unconvertible scalar instead of the first
LastInvalidIndex(n) ==
    LET bad == { i \in 1..Len(n) : ~Char16TryFrom(n[i]).ok }
    IN IF bad = {} THEN 0
       ELSE CHOOSE i \in bad : \A j \in bad : i >= j

\* the index in the name (1-based) at which the encoding loop stops with
\* an error, 0 when every scalar converts
InvalidIndex(n) ==
    LET bad == { i \in 1..Len(n) : ~Char16TryFrom(n[i]).ok }
    IN IF bad = {} THEN 0
       ELSE CHOOSE i \in bad : \A j \in bad : i <= j

\* the terminator one code unit too far
TerminatorIndexPastEnd(n) == NameLengthUcs2(n)

\* the 0-based index of info.name that receives NUL_16
TerminatorIndex(n) == NameLengthUcs2(n) - 1

\* bytes after info.name[idx] = unit, info.name starting right after the
\* header of the record at 0-based offset off
WriteName(bytes, off, k, idx, unit) ==
    WriteBytes(bytes, off + SizeOfHeader(k) + idx * SizeOfChar16, LE(unit, 2))

RECURSIVE EncodeName(_, _, _, _, _)
\* the encoding loop: scalars i..upto of n written in order
EncodeName(bytes, off, k, n, upto) ==
    IF upto = 0 THEN bytes
    ELSE WriteName(EncodeName(bytes, off, k, n, upto - 1), off, k,
                   upto - 1, Char16TryFrom(n[upto]).val)

\* new_impl with the header written before the size check
new_impl_header_first(addr, bytes, k, hbytes, n) ==
    LET slice == realign_storage(addr, Len(bytes), k)
        off == slice.addr - addr
        withHeader == IF slice.len > 0 THEN WriteBytes(bytes, off, hbytes)
                      ELSE bytes
        bad == InvalidIndex(n)
    IN IF StorageTooSmall(slice, k, n)
       THEN [res |-> InsufficientStorage(InfoSize(k, n)), bytes |-> withHeader]
       ELSE IF bad # 0
       THEN [res |-> InvalidChar(n[bad]),
             bytes |-> EncodeName(withHeader, off, k, n, bad - 1)]
       ELSE [res |-> Ok(slice.addr, NameLengthUcs2(n)),
             bytes |-> WriteName(EncodeName(withHeader, off, k, n, Len(n)),
                                 off, k, TerminatorIndex(n), NUL_16)]

\* NamedFileProtocolInfo::new_impl on the buffer bytes at address addr;
\* returns the Result and the bytes of the buffer afterwards
new_impl(addr, bytes, k, hbytes, n) ==
    LET slice == realign_storage(addr, Len(bytes), k)
        off == slice.addr - addr
        withHeader == WriteBytes(bytes, off, hbytes)
        bad == InvalidIndex(n)
    IN IF StorageTooSmall(slice, k, n)
       THEN [res |-> InsufficientStorage(InfoSize(k, n)), bytes |-> bytes]
       ELSE IF bad # 0
       THEN [res |-> InvalidChar(n[bad]),
             bytes |-> EncodeName(withHeader, off, k, n, bad - 1)]
       ELSE [res |-> Ok(slice.addr, NameLengthUcs2(n)),
             bytes |-> WriteName(EncodeName(withHeader, off, k, n, Len(n)),
                                 off, k, TerminatorIndex(n), NUL_16)]

\* mem::size_of_val(&info) as written in FileInfo::new and
\* FileSystemInfo::new: info is a `&mut Self`, so this is the size of the
\* reference itself
SizeOfValInfo(k, len) == FatPtrSize

\* `info.header.size = mem::size_of_val(&info) as u64` after a success
SetHeaderSize(r, addr, k) ==
    IF r.res.tag = "Ok"
    THEN [r EXCEPT !.bytes = WriteBytes(r.bytes, r.res.ptr - addr,
                                        LE(SizeOfValInfo(k, r.res.len), 8))]
    ELSE r

\* FileInfo::new, FileSystemInfo::new, FileSystemVolumeLabel::new
New(addr, bytes, k, h, p, n) ==
    LET r == new_impl(addr, bytes, k, HeaderBytes(k, h, p), n)
    IN IF k = "FileSystemVolumeLabel" THEN r ELSE SetHeaderSize(r, addr, k)

(******************************* state *************************************)
NoResult == [tag |-> "None", ptr |-> 0, len |-> 0, val |-> 0]
NoSlice == [addr |-> 0, len |-> 0]
NoView == [ptr |-> 0, len |-> 0]
NoDecoded == [name |-> << >>, hdr |-> [empty |-> TRUE]]

StorageLens(k) ==
    (0..MaxSlack) \cup (SizeOfHeader(k)..(SizeOfHeader(k) + MaxSlack))

Init ==
    /\ kind \in Kinds
    /\ storageAddr \in MinAddr..(MinAddr + MaxAddrSpan)
    /\ \E len \in StorageLens(kind), b \in {0, 238} : storage = Fill(len, b)
    /\ storage0 = storage
    /\ header = [empty |-> TRUE]
    /\ name = << >>
    /\ pad = 0
    /\ result = NoResult
    /\ pc = "idle"
    /\ realigned = NoSlice
    /\ view = NoView
    /\ decoded = NoDecoded
    /\ first = NoResult

Build(k, h, p, n) ==
    /\ LET r == New(storageAddr, storage, k, h, p, n)
       IN /\ result' = r.res
          /\ storage' = r.bytes
    /\ header' = h
    /\ name' = n
    /\ pad' = p
    /\ pc' = "returned"
    /\ UNCHANGED <<kind, storageAddr, storage0, realigned, view, decoded, first>>

FileInfoNew ==
    /\ pc = "idle"
    /\ kind = "FileInfo"
    /\ \E h \in FileInfoHeaders, n \in Names : Build("FileInfo", h, 0, n)

FileSystemInfoNew ==
    /\ pc = "idle"
    /\ kind = "FileSystemInfo"
    /\ \E h \in FileSystemInfoHeaders, p \in PadBytes, n \in Names :
          Build("FileSystemInfo", h, p, n)

FileSystemVolumeLabelNew ==
    /\ pc = "idle"
    /\ kind = "FileSystemVolumeLabel"
    /\ \E h \in FileSystemVolumeLabelHeaders, n \in Names :
          Build("FileSystemVolumeLabel", h, 0, n)

\* a direct call of realign_storage on the caller's buffer
RealignStorage ==
    /\ pc = "idle"
    /\ realigned' = realign_storage(storageAddr, Len(storage), kind)
    /\ pc' = "realigned"
    /\ UNCHANGED <<kind, storageAddr, storage, storage0, header, name, pad,
                   result, view, decoded, first>>

(************************ from_uefi and accessors ***************************)
\* the Char16 at 0-based index idx after the header of the record at ptr
NameUnit(addr, bytes, k, ptr, idx) ==
    FromLE(ReadBytes(bytes, (ptr - addr) + SizeOfHeader(k) + idx * SizeOfChar16, 2))

\* TRUE when the buffer holds two bytes for that Char16
NameUnitInBounds(addr, bytes, k, ptr, idx) ==
    (ptr - addr) + SizeOfHeader(k) + (idx + 1) * SizeOfChar16 <= Len(bytes)

RECURSIVE ScanNul(_, _, _, _, _)
\* CStr16::from_ptr: the 0-based index of the first NUL code unit at or
\* after idx, or -1 when the scan leaves the buffer
ScanNul(addr, bytes, k, ptr, idx) ==
    IF ~NameUnitInBounds(addr, bytes, k, ptr, idx) THEN -1
    ELSE IF NameUnit(addr, bytes, k, ptr, idx) = NUL_16 THEN idx
    ELSE ScanNul(addr, bytes, k, ptr, idx + 1)

\* NamedFileProtocolInfo::from_uefi(raw_ptr): the fat reference whose length
\* is that of the name with its NUL
from_uefi(addr, bytes, k, raw_ptr) ==
    LET name_len == ScanNul(addr, bytes, k, raw_ptr, 0) + 1
    IN [ptr |-> raw_ptr, len |-> name_len]

\* file_name() / volume_label(): the code units before the first NUL
CStr16Units(addr, bytes, k, ptr) ==
    LET nul == ScanNul(addr, bytes, k, ptr, 0)
    IN [i \in 1..nul |-> NameUnit(addr, bytes, k, ptr, i - 1)]

\* the n bytes of a header field at 0-based offset fo of the record at ptr
Field(addr, bytes, ptr, fo, n) == ReadBytes(bytes, (ptr - addr) + fo, n)

\* the getters of FileInfo
FileInfoGetters(addr, bytes, ptr) ==
    [file_size |-> FromLE(Field(addr, bytes, ptr, 8, 8)),
     physical_size |-> FromLE(Field(addr, bytes, ptr, 16, 8)),
     create_time |-> Field(addr, bytes, ptr, 24, 16),
     last_access_time |-> Field(addr, bytes, ptr, 40, 16),
     modification_time |-> Field(addr, bytes, ptr, 56, 16),
     attribute |-> FromLE(Field(addr, bytes, ptr, 72, 8))]

\* the getters of FileSystemInfo
FileSystemInfoGetters(addr, bytes, ptr) ==
    [read_only |-> (Field(addr, bytes, ptr, 8, 1)[1] # 0),
     volume_size |-> FromLE(Field(addr, bytes, ptr, 16, 8)),
     free_space |-> FromLE(Field(addr, bytes, ptr, 24, 8)),
     block_size |-> FromLE(Field(addr, bytes, ptr, 32, 4))]

\* the fields of a header value that the getters expose (all but size)
HeaderFields(k, h) ==
    CASE k = "FileInfo" ->
           [file_size |-> h.file_size, physical_size |-> h.physical_size,
            create_time |-> h.create_time,
            last_access_time |-> h.last_access_time,
            modification_time |-> h.modification_time,
            attribute |-> h.attribute]
      [] k = "FileSystemInfo" ->
           [read_only |-> h.read_only, volume_size |-> h.volume_size,
            free_space |-> h.free_space, block_size |-> h.block_size]
      [] k = "FileSystemVolumeLabel" -> h

\* from_uefi applied to the address of the record just built
FromUefi ==
    /\ pc = "returned"
    /\ result.tag = "Ok"
    /\ view' = from_uefi(storageAddr, storage, kind, result.ptr)
    /\ pc' = "viewed"
    /\ UNCHANGED <<kind, storageAddr, storage, storage0, header, name, pad,
                   result, realigned, decoded, first>>

Accessors(k, hdr) ==
    /\ decoded' = [name |-> CStr16Units(storageAddr, storage, k, result.ptr),
                   hdr |-> hdr]
    /\ pc' = "decoded"
    /\ UNCHANGED <<kind, storageAddr, storage, storage0, header, name, pad,
                   result, realigned, view, first>>

FileInfoAccessors ==
    /\ pc = "returned"
    /\ result.tag = "Ok"
    /\ kind = "FileInfo"
    /\ Accessors("FileInfo", FileInfoGetters(storageAddr, storage, result.ptr))

FileSystemInfoAccessors ==
    /\ pc = "returned"
    /\ result.tag = "Ok"
    /\ kind = "FileSystemInfo"
    /\ Accessors("FileSystemInfo",
       FileSystemInfoGetters(storageAddr, storage, result.ptr))

FileSystemVolumeLabelAccessors ==
    /\ pc = "returned"
    /\ result.tag = "Ok"
    /\ kind = "FileSystemVolumeLabel"
    /\ Accessors("FileSystemVolumeLabel", [empty |-> TRUE])

\* the caller's answer to InsufficientStorage(n): the same build in a fresh
\* zero-filled buffer of exactly n bytes at an aligned address
Retry ==
    /\ pc = "returned"
    /\ result.tag = "InsufficientStorage"
    /\ \E a \in MinAddr..(MinAddr + MaxAddrSpan) :
          /\ a % InfoAlignment(kind) = 0
          /\ LET fresh == Fill(result.val, 0)
                 r == New(a, fresh, kind, header, pad, name)
             IN /\ storageAddr' = a
                /\ storage0' = fresh
                /\ storage' = r.bytes
                /\ result' = r.res
    /\ first' = result
    /\ pc' = "retried"
    /\ UNCHANGED <<kind, header, name, pad, realigned, view, decoded>>

Next ==
    \/ FileInfoNew
    \/ FileSystemInfoNew
    \/ FileSystemVolumeLabelNew
    \/ RealignStorage
    \/ FromUefi
    \/ FileInfoAccessors
    \/ FileSystemInfoAccessors
    \/ FileSystemVolumeLabelAccessors
    \/ Retry

Spec == Init /\ [][Next]_vars

(***************************************************************************)
(* Properties                                                              *)
(***************************************************************************)
\* the buffer as it was handed to the build: length after realign_storage
RealignedLen == realign_storage(storageAddr, Len(storage0), kind).len
\* 0-based offset of the realigned buffer in the caller's buffer
RealignedOff == realign_storage(storageAddr, Len(storage0), kind).addr - storageAddr
\* header size + (k + 1) * 2 for the name of the state
RequiredBytes == SizeOfHeader(kind) + (Len(name) + 1) * 2
\* the first address at or after a that is a multiple of al
FirstAligned(a, al) == CHOOSE x \in a..(a + al - 1) : x % al = 0
\* the first scalar of n above the 16-bit range (n has one)
FirstAbove16Bit(n) ==
    n[CHOOSE i \in 1..Len(n) :
        n[i] > 65535 /\ \A j \in 1..(i - 1) : n[j] <= 65535]
\* the Char16 at index idx of the name of the record the build returned
BuiltUnit(idx) == NameUnit(storageAddr, storage, kind, result.ptr, idx)

\* C1: realign_storage returns an empty buffer exactly when the buffer is
\* shorter than the alignment A, and otherwise the sub-buffer that starts at
\* the first aligned address, A-aligned, shorter by less than A bytes.
C1_AlignmentPreservation ==
    pc = "realigned" =>
        LET A == Max(AlignOfHeader(kind), 2)
            len == Len(storage)
            fa == FirstAligned(storageAddr, A)
        IN IF len < A THEN realigned.len = 0
           ELSE /\ realigned.len > 0
                /\ realigned.addr = fa
                /\ realigned.addr % A = 0
                /\ realigned.len = len - (fa - storageAddr)
                /\ len - realigned.len < A

\* C2: after InsufficientStorage(n), the same build of a name of 16-bit
\* scalars in an aligned buffer of exactly n bytes succeeds.
C2_RetryWithReportedSize ==
    (pc = "retried" /\ first.tag = "InsufficientStorage"
       /\ Len(storage0) = first.val /\ Representable(name))
    => result.tag = "Ok"

\* C3: after FileInfo::new or FileSystemInfo::new succeeds, the size field of
\* the header is header size + (k + 1) * 2.
C3_SelfReportedSize ==
    (pc = "returned" /\ result.tag = "Ok"
       /\ kind \in {"FileInfo", "FileSystemInfo"})
    => FromLE(ReadBytes(storage, result.ptr - storageAddr, 8)) = RequiredBytes

\* C4: a record built from (H, N) in a zero-initialized buffer decodes,
\* through the accessors, to the name N and the header fields of H.
C4_RoundTrip ==
    (pc = "decoded" /\ storage0 = Fill(Len(storage0), 0))
    => /\ decoded.name = name
       /\ Len(decoded.name) = Len(name)
       /\ decoded.hdr = HeaderFields(kind, header)

\* C5: in a record a build returned, the only zero code unit among the
\* count_of_scalars(name) + 1 name code units is the last.
C5_NoEmbeddedTerminator ==
    (pc = "returned" /\ result.tag = "Ok")
    => /\ \A i \in 0..(Len(name) - 1) : BuiltUnit(i) # 0
       /\ BuiltUnit(Len(name)) = 0

\* C6: a build in a buffer whose realigned length is below
\* R = header size + (k + 1) * 2 fails with InsufficientStorage(R); a build
\* of a name of 16-bit scalars in a buffer whose realigned length is exactly
\* R succeeds.
C6_MinimumSizeReporting ==
    pc = "returned" =>
        /\ RealignedLen < RequiredBytes
             => (result.tag = "InsufficientStorage" /\ result.val = RequiredBytes)
        /\ (RealignedLen = RequiredBytes /\ Representable(name))
             => result.tag = "Ok"

C6_Witness ==
    /\ pc = "returned"
    /\ RealignedLen = RequiredBytes
    /\ Len(name) >= 1
    /\ Representable(name)
    /\ result.tag = "Ok"

\* C7: a build of a name with a scalar above the 16-bit range, in a buffer
\* that passes the size check, fails with InvalidChar carrying the first such
\* scalar, and returns no record.
C7_InvalidCharRejection ==
    (pc = "returned" /\ RealignedLen >= RequiredBytes
       /\ \E i \in 1..Len(name) : name[i] > 65535)
    => /\ result.tag = "InvalidChar"
       /\ result.val = FirstAbove16Bit(name)
       /\ result.ptr = 0 /\ result.len = 0

C7_Witness ==
    /\ pc = "returned"
    /\ result.tag = "InvalidChar"
    /\ \E i, j \in 1..Len(name) :
          i < j /\ name[i] > 65535 /\ name[j] > 65535 /\ name[i] # name[j]

\* C8: from_uefi on the address of a record new_impl built returns a
\* reference whose name has count_of_scalars(name) + 1 code units, the ones
\* the builder wrote.
C8_ViewAgreement ==
    pc = "viewed" =>
        /\ view.ptr = result.ptr
        /\ view.len = Len(name) + 1
        /\ \A i \in 0..(view.len - 1) :
              NameUnit(storageAddr, storage, kind, view.ptr, i)
                = (IF i < Len(name) THEN name[i + 1] ELSE 0)

\* C9: a successful build changes no byte of the buffer outside the record,
\* the header and (k + 1) * 2 name bytes at the realigned offset.
C9_FrameOfSuccess ==
    (pc = "returned" /\ result.tag = "Ok")
    => /\ Len(storage) = Len(storage0)
       /\ \A i \in 1..Len(storage) :
             (i <= RealignedOff \/ i > RealignedOff + RequiredBytes)
                => storage[i] = storage0[i]

C9_Witness ==
    /\ pc = "returned"
    /\ result.tag = "Ok"
    /\ Len(name) >= 1
    /\ Len(storage) > RealignedOff + RequiredBytes + 2
    /\ storage0[Len(storage0)] # 0

\* C10: a build that fails with InsufficientStorage has modified no byte of
\* the buffer; a failed build that modified the buffer failed with
\* InvalidChar.
C10_NoWriteBeforeSizeCheck ==
    pc \in {"returned", "retried"} =>
        /\ result.tag = "InsufficientStorage" => storage = storage0
        /\ (result.tag # "Ok" /\ storage # storage0)
             => result.tag = "InvalidChar"

C10_Witness ==
    /\ pc = "returned"
    /\ result.tag = "InsufficientStorage"
    /\ RealignedLen >= SizeOfHeader(kind)
    /\ SizeOfHeader(kind) > 0
    /\ storage0[Len(storage0)] # 0

====
